---- MODULE Spec2Model ----
(***************************************************************************)
(* Model of the notification-document generator (services/fechas.py,       *)
(* services/documentos.py, services/razones.py and the CSV step of         *)
(* api.py).                                                                *)
(*                                                                         *)
(* Text is modelled as a sequence of atoms.  An atom is a word that the    *)
(* code never looks inside (a day number, a month abbreviation, a piece of *)
(* a placeholder), or one of the separator characters " ", "\t" and ",".   *)
(* Every string operation of the code (strip, split, join, replace, in,    *)
(* lower) is modelled by what it does to such a sequence.                  *)
(***************************************************************************)
EXTENDS Integers, Sequences, FiniteSets, TLC

VARIABLES
    pc,                 \* position of the operation being run
    texto_fecha,        \* expandir_mes: argument
    texto_expandido,    \* expandir_mes: returned string
    fecha_notificacion, \* formatear_fechas_notificacion: argument
    texto_notificacion, \* formatear_fechas_notificacion: returned string
    df_csv,             \* procesar_csv_fechas: the rows of the CPanel CSV
    remitente,          \* procesar_csv_fechas: argument
    dic_fechas,         \* the index returned by procesar_csv_fechas
    respuesta,          \* generar_razones_endpoint: outcome of the CSV step
    reemplazos,         \* the replacement map, as the list of its (marcador, valor) items
    parrafo,            \* reemplazar_en_parrafo: the texts of the runs of the paragraph
    parrafo_original,   \* the paragraph as it was before the call
    documento,          \* reemplazar_en_documento: the document
    documento_original, \* the document as it was before the call
    df_excel,           \* generar_razones: the rows of the Excel sheet
    plantilla,          \* generar_razones: the template stored at plantilla_path
    emails_por_titulo,  \* generar_razones: the (NUMERO_TITULO, emails) items of the dict
    archivos_generados, \* generar_razones: the paths of the documents saved so far
    disco               \* the documents saved in output_dir, by path

varsMes == <<texto_fecha, texto_expandido>>
varsFechas == <<fecha_notificacion, texto_notificacion>>
varsCsv == <<df_csv, remitente, dic_fechas, respuesta>>

varsDoc == <<reemplazos, parrafo, parrafo_original, documento, documento_original>>

varsRazones == <<df_excel, plantilla, emails_por_titulo, archivos_generados, disco>>

vars == <<pc, varsMes, varsFechas, varsCsv, varsDoc, varsRazones>>

-----------------------------------------------------------------------------
(* Bounds of the model. *)

MaxPalabras == 4
MaxSegmentos == 3
MaxRegistros == 3
MaxRuns == 2
MaxParrafos == 1
MaxFilas == 3

-----------------------------------------------------------------------------
(* Strings as sequences of atoms. *)

Sp == " "
Tab == "\t"
Coma == ","

EsBlanco(a) == a \in {Sp, Tab}

\* str.lower() on one atom: the mixed-case atoms used by the model.
MinusculaDe ==
    [Jan |-> "jan", Feb |-> "feb", Mar |-> "mar", Apr |-> "apr", May |-> "may",
     Jun |-> "jun", Jul |-> "jul", Aug |-> "aug", Sep |-> "sep", Oct |-> "oct",
     Nov |-> "nov", Dec |-> "dec", Ene |-> "ene", Abr |-> "abr", Ago |-> "ago",
     Sept |-> "sept", Dic |-> "dic",
     ENE |-> "ene", FEB |-> "feb", MAR |-> "mar", DIC |-> "dic",
     A |-> "a", B |-> "b", R |-> "r"]

ConMayusculas == DOMAIN MinusculaDe

LowerAtom(a) == IF a \in ConMayusculas THEN MinusculaDe[a] ELSE a

\* str.lower()
Lower(s) == [i \in 1..Len(s) |-> LowerAtom(s[i])]

\* str.title() on a lower-case month abbreviation
TituloDe ==
    [ene |-> "Ene", feb |-> "Feb", mar |-> "Mar", abr |-> "Abr", may |-> "May",
     jun |-> "Jun", jul |-> "Jul", ago |-> "Ago", sept |-> "Sept", sep |-> "Sep",
     oct |-> "Oct", nov |-> "Nov", dic |-> "Dic"]

Title(a) == TituloDe[a]

RECURSIVE LStrip(_)
LStrip(s) == IF s # <<>> /\ EsBlanco(Head(s)) THEN LStrip(Tail(s)) ELSE s

RECURSIVE RStrip(_)
RStrip(s) ==
    IF s # <<>> /\ EsBlanco(s[Len(s)]) THEN RStrip(SubSeq(s, 1, Len(s) - 1)) ELSE s

\* str.strip()
Strip(s) == RStrip(LStrip(s))

\* pat occurs in s at position i
OcurreEn(s, pat, i) ==
    /\ i >= 1
    /\ i + Len(pat) - 1 <= Len(s)
    /\ \A k \in 1..Len(pat) : s[i + k - 1] = pat[k]

\* pat in s
Contiene(s, pat) == \E i \in 1..(Len(s) + 1) : OcurreEn(s, pat, i)

\* str.replace(pat, rep): left to right, non-overlapping; pat is never empty
RECURSIVE ReplaceDesde(_, _, _)
ReplaceDesde(s, pat, rep) ==
    IF s = <<>> THEN <<>>
    ELSE IF OcurreEn(s, pat, 1)
         THEN rep \o ReplaceDesde(SubSeq(s, Len(pat) + 1, Len(s)), pat, rep)
         ELSE <<Head(s)>> \o ReplaceDesde(Tail(s), pat, rep)

Replace(s, pat, rep) == IF Contiene(s, pat) THEN ReplaceDesde(s, pat, rep) ELSE s

\* str.split(sep) for a one-character separator: the empty pieces are kept
RECURSIVE SplitSep(_, _)
SplitSep(s, sep) ==
    IF \A i \in 1..Len(s) : s[i] # sep THEN <<s>>
    ELSE LET i == CHOOSE j \in 1..Len(s) :
                      s[j] = sep /\ \A k \in 1..(j - 1) : s[k] # sep
         IN <<SubSeq(s, 1, i - 1)>> \o SplitSep(SubSeq(s, i + 1, Len(s)), sep)

\* str.split(): the whitespace-delimited tokens, none of them empty
RECURSIVE Split(_)
Split(s) ==
    LET t == LStrip(s) IN
    IF t = <<>> THEN <<>>
    ELSE LET n == IF \E j \in 1..Len(t) : EsBlanco(t[j])
                  THEN (CHOOSE j \in 1..Len(t) :
                            EsBlanco(t[j]) /\ \A k \in 1..(j - 1) : ~EsBlanco(t[k])) - 1
                  ELSE Len(t)
         IN <<SubSeq(t, 1, n)>> \o Split(SubSeq(t, n + 1, Len(t)))

\* sep.join(partes)
RECURSIVE Join(_, _)
Join(partes, sep) ==
    IF partes = <<>> THEN <<>>
    ELSE IF Len(partes) = 1 THEN partes[1]
    ELSE partes[1] \o sep \o Join(Tail(partes), sep)

\* the one element of a singleton set
Unico(S) == CHOOSE x \in S : TRUE

\* the last n elements of a list: lista[-n:]
Ultimos(lista, n) ==
    IF Len(lista) <= n THEN lista ELSE SubSeq(lista, Len(lista) - n + 1, Len(lista))

-----------------------------------------------------------------------------
(* fechas.py: the month tables, in dictionary (insertion) order. *)

MESES_ES_EN ==
    << <<"ene", "Jan">>, <<"feb", "Feb">>, <<"mar", "Mar">>, <<"abr", "Apr">>,
       <<"may", "May">>, <<"jun", "Jun">>, <<"jul", "Jul">>, <<"ago", "Aug">>,
       <<"sept", "Sep">>, <<"sep", "Sep">>, <<"oct", "Oct">>, <<"nov", "Nov">>,
       <<"dic", "Dec">> >>

MESES_COMPLETOS ==
    << <<"ene", "enero">>, <<"feb", "febrero">>, <<"mar", "marzo">>,
       <<"abr", "abril">>, <<"may", "mayo">>, <<"jun", "junio">>,
       <<"jul", "julio">>, <<"ago", "agosto">>, <<"sept", "septiembre">>,
       <<"sep", "septiembre">>, <<"oct", "octubre">>, <<"nov", "noviembre">>,
       <<"dic", "diciembre">> >>

\* f"de {completo} de"
DeMesDe(completo) == <<"de", Sp, completo, Sp, "de">>

-----------------------------------------------------------------------------
(* fechas.py: expandir_mes *)

\* lines 65-69: the first token equal to abrev (case-insensitive) is replaced
RECURSIVE ReemplazarPrimera(_, _, _)
ReemplazarPrimera(partes, abrev, completo) ==
    IF partes = <<>> THEN <<>>
    ELSE IF Lower(Head(partes)) = <<abrev>>
         THEN <<DeMesDe(completo)>> \o Tail(partes)
         ELSE <<Head(partes)>> \o ReemplazarPrimera(Tail(partes), abrev, completo)

\* mutant: the abbreviation is looked for among the tokens, not between spaces
AbrevComoPalabra(texto, abrev) ==
    \E i \in 1..Len(Split(texto)) : Lower(Split(texto)[i]) = <<abrev>>

\* the test of line 64
AbrevPresente(texto, abrev) == Contiene(Lower(texto), <<Sp, abrev, Sp>>)

\* lines 63-71: the loop over MESES_COMPLETOS, from entry k on
RECURSIVE ExpandirDesde(_, _)
ExpandirDesde(texto, k) ==
    IF k > Len(MESES_COMPLETOS) THEN texto
    ELSE IF AbrevPresente(texto, MESES_COMPLETOS[k][1])
         THEN Join(ReemplazarPrimera(Split(texto), MESES_COMPLETOS[k][1],
                                     MESES_COMPLETOS[k][2]), <<Sp>>)
         ELSE ExpandirDesde(texto, k + 1)

expandir_mes(t) == ExpandirDesde(Strip(t), 1)

-----------------------------------------------------------------------------
(* Inputs of expandir_mes: up to MaxPalabras words, each followed by a      *)
(* separator, after an optional leading blank.                             *)

PalabrasMes == {"feb", "MAR", "x"}
Separadores == {<<Sp>>, <<Tab>>}

RECURSIVE Armar(_)
Armar(items) ==
    IF items = <<>> THEN <<>>
    ELSE <<Head(items)[1]>> \o Head(items)[2] \o Armar(Tail(items))

SeqHasta(S, n) == UNION {[1..k -> S] : k \in 0..n}

TextosMes ==
    {pre \o Armar(items) :
        pre \in {<<>>, <<Sp>>}, items \in SeqHasta(PalabrasMes \X Separadores, MaxPalabras)}

NoCalculado == <<"(no calculado)">>

-----------------------------------------------------------------------------
(* pd.to_datetime(texto, format="%d %b %Y %H:%M:%S")                        *)
(*                                                                         *)
(* strptime matches the whole string against the format: a day, a month    *)
(* abbreviation of the C locale (any case), a year and a time, separated   *)
(* by runs of whitespace.  The tables give the value of each atom that the *)
(* directives %d, %Y and %H:%M:%S accept.                                  *)

DiasNum == ("1" :> 1) @@ ("01" :> 1) @@ ("11" :> 11) @@ ("12" :> 12) @@ ("13" :> 13)
AniosNum == ("2025" :> 2025) @@ ("2026" :> 2026)
HorasNum == ("10:00:00" :> 36000) @@ ("14:30:00" :> 52200)
MesesEnNum ==
    [jan |-> 1, feb |-> 2, mar |-> 3, apr |-> 4, may |-> 5, jun |-> 6,
     jul |-> 7, aug |-> 8, sep |-> 9, oct |-> 10, nov |-> 11, dec |-> 12]

\* pd.NaT: no calendar date has the number 0
NaT == [fecha |-> 0, hora |-> 0]

\* fecha is the calendar date (dt.date()), hora the time of day
to_datetime(texto) ==
    LET tk == Split(texto) IN
    IF /\ texto = Strip(texto)
       /\ Len(tk) = 4
       /\ \A i \in 1..4 : Len(tk[i]) = 1
       /\ tk[1][1] \in DOMAIN DiasNum
       /\ LowerAtom(tk[2][1]) \in DOMAIN MesesEnNum
       /\ tk[3][1] \in DOMAIN AniosNum
       /\ tk[4][1] \in DOMAIN HorasNum
    THEN [fecha |-> AniosNum[tk[3][1]] * 10000
                    + MesesEnNum[LowerAtom(tk[2][1])] * 100 + DiasNum[tk[1][1]],
          hora |-> HorasNum[tk[4][1]]]
    ELSE NaT

-----------------------------------------------------------------------------
(* fechas.py: formatear_fechas_notificacion *)

\* lines 92-93: Spanish abbreviations to English, lower case and Title case only
RECURSIVE TraducirDesde(_, _)
TraducirDesde(texto, k) ==
    IF k > Len(MESES_ES_EN) THEN texto
    ELSE LET es == MESES_ES_EN[k][1]
             en == MESES_ES_EN[k][2]
         IN TraducirDesde(
                Replace(Replace(texto, <<Sp, es, Sp>>, <<Sp, en, Sp>>),
                        <<Sp, Title(es), Sp>>, <<Sp, en, Sp>>),
                k + 1)

\* lines 91-99: the parsed value of one segment, NaT when it does not parse
ParsearSegmento(raw) == to_datetime(TraducirDesde(raw, 1))

\* line 83: the trimmed, non-empty comma-separated segments
RECURSIVE NoVacios(_)
NoVacios(piezas) ==
    IF piezas = <<>> THEN <<>>
    ELSE IF Strip(Head(piezas)) # <<>>
         THEN <<Strip(Head(piezas))>> \o NoVacios(Tail(piezas))
         ELSE NoVacios(Tail(piezas))

RawPartes(f) == NoVacios(SplitSep(f, Coma))

\* sorted(conjunto) of numbers, ascending
RECURSIVE Sorted(_)
Sorted(S) ==
    IF S = {} THEN <<>>
    ELSE LET m == CHOOSE x \in S : \A y \in S : x <= y
         IN <<m>> \o Sorted(S \ {m})

\* max(lista, key=lambda x: x[0]): the first of the maximal entries
RECURSIVE MaxDesde(_, _)
MaxDesde(mejor, resto) ==
    IF resto = <<>> THEN mejor
    ELSE IF Head(resto)[1].hora > mejor[1].hora
         THEN MaxDesde(Head(resto), Tail(resto))
         ELSE MaxDesde(mejor, Tail(resto))

\* mutant: on equal times the entry seen last wins
RECURSIVE MaxUltimoDesde(_, _)
MaxUltimoDesde(mejor, resto) ==
    IF resto = <<>> THEN mejor
    ELSE IF Head(resto)[1].hora >= mejor[1].hora
         THEN MaxUltimoDesde(Head(resto), Tail(resto))
         ELSE MaxUltimoDesde(mejor, Tail(resto))

MaxPorHoraUltimo(lista) == MaxUltimoDesde(Head(lista), Tail(lista))

MaxPorHora(lista) == MaxDesde(Head(lista), Tail(lista))

\* mutant: the slice is forgotten and every day is kept
TodosLosDias(mejores) == mejores

\* line 123: mejores[-2:]
DosMasRecientes(mejores) == Ultimos(mejores, 2)

\* lines 128-132 (and line 108)
UnirConY(partes) ==
    IF Len(partes) = 0 THEN <<>>
    ELSE IF Len(partes) = 1 THEN partes[1]
    ELSE Join(partes, <<Sp, "y", Sp>>)

\* lines 101-132, fechas_dt being the list of (parsed value, raw text) pairs
FormatearParseadas(raw_partes, fechas_dt) ==
    LET EsValida(e) == e[1] # NaT
        validas == SelectSeq(fechas_dt, EsValida)
    IN
    IF validas = <<>>
    THEN LET ult == Ultimos(raw_partes, 2)
         IN UnirConY([i \in 1..Len(ult) |-> expandir_mes(ult[i])])
    ELSE
    LET dias == {validas[i][1].fecha : i \in 1..Len(validas)}
        por_dia == [d \in dias |->
                        LET DelDia(e) == e[1].fecha = d IN SelectSeq(validas, DelDia)]
        orden == Sorted(dias)
        mejores == DosMasRecientes([k \in 1..Len(orden) |-> MaxPorHora(por_dia[orden[k]])])
    IN UnirConY([k \in 1..Len(mejores) |-> expandir_mes(mejores[k][2])])

\* lines 80-99
formatear_fechas_notificacion(f) ==
    IF f = <<>> \/ Strip(f) = <<>> THEN <<>>
    ELSE Unico({IF raw_partes = <<>> THEN <<>>
                ELSE Unico({FormatearParseadas(raw_partes, fechas_dt) :
                        fechas_dt \in {[i \in 1..Len(raw_partes) |->
                            <<ParsearSegmento(raw_partes[i]), raw_partes[i]>>]}}) :
                raw_partes \in {RawPartes(f)}})

-----------------------------------------------------------------------------
(* Inputs of formatear_fechas_notificacion: up to MaxSegmentos segments     *)
(* joined with ", " as generar_razones joins them.                         *)

Fecha(dia, mes, anio, hora) == <<dia, Sp, mes, Sp, anio, Sp, hora>>

SegmentosFecha ==
    { Fecha("1", "feb", "2026", "10:00:00"),
      Fecha("1", "feb", "2026", "14:30:00"),
      Fecha("01", "Feb", "2026", "14:30:00"),
      Fecha("12", "ene", "2026", "10:00:00"),
      Fecha("13", "feb", "2026", "10:00:00"),
      Fecha("13", "ENE", "2026", "10:00:00"),
      <<"x", Sp, "y", Sp, "x">>,
      <<>> }

-----------------------------------------------------------------------------
(* fechas.py: procesar_csv_fechas *)

REMITENTE_DEFAULT == "r"

\* pat, which is lower case, occurs in s at position i whatever the case
OcurreCI(s, pat, i) ==
    /\ i + Len(pat) - 1 <= Len(s)
    /\ \A k \in 1..Len(pat) : LowerAtom(s[i + k - 1]) = pat[k]

\* Series.str.replace(pat, rep, case=False, regex=False); pat is lower case
RECURSIVE ReplaceCIDesde(_, _, _)
ReplaceCIDesde(s, pat, rep) ==
    IF s = <<>> THEN <<>>
    ELSE IF OcurreCI(s, pat, 1)
         THEN rep \o ReplaceCIDesde(SubSeq(s, Len(pat) + 1, Len(s)), pat, rep)
         ELSE <<Head(s)>> \o ReplaceCIDesde(Tail(s), pat, rep)

ReplaceCI(s, pat, rep) ==
    IF \E i \in 1..Len(s) : OcurreCI(s, pat, i) THEN ReplaceCIDesde(s, pat, rep) ELSE s

\* lines 36-37
RECURSIVE TraducirCIDesde(_, _)
TraducirCIDesde(texto, k) ==
    IF k > Len(MESES_ES_EN) THEN texto
    ELSE TraducirCIDesde(
             ReplaceCI(texto, <<Sp, MESES_ES_EN[k][1], Sp>>, <<Sp, MESES_ES_EN[k][2], Sp>>),
             k + 1)

\* mutant: only the rows of the sender are parsed
SoloDelRemitente(df, rem) ==
    LET Suya(f) == f.Remitente = rem IN SelectSeq(df, Suya)

\* lines 35-38: the rows whose timestamp is parsed are all the rows of the CSV
FilasParseadas(df, rem) == df

\* list(reversed(lista))
Reverse(lista) == [i \in 1..Len(lista) |-> lista[Len(lista) + 1 - i]]

\* mutant: the two most recent days of the whole log
FechasDeTodos(df, filtrado) == {df[i].fecha_dt.fecha : i \in 1..Len(df)}

\* line 45: the days among which the two most recent are taken
FechasDelFiltrado(df, filtrado) == {filtrado[i].fecha_dt.fecha : i \in 1..Len(filtrado)}

\* .groupby("Destinatario")["Fecha Envio CPanel"].apply(list).to_dict()
AgruparPorDestinatario(filas) ==
    [d \in {filas[i].Destinatario : i \in 1..Len(filas)} |->
        LET Para(f) == f.Destinatario = d
            suyas == SelectSeq(filas, Para)
        IN [i \in 1..Len(suyas) |-> suyas[i].Fecha]]

\* what a call leaves in dic_fechas: nothing yet, a dict, or a raised exception
SinDic == [estado |-> "None", indice |-> <<>>]
Excepcion == [estado |-> "excepcion", indice |-> <<>>]
Dict(indice) == [estado |-> "dict", indice |-> indice]

\* lines 35-38: the column _fecha_dt
ConFechaDt(filas_csv) ==
    [i \in 1..Len(filas_csv) |->
        [Remitente |-> filas_csv[i].Remitente,
         Destinatario |-> filas_csv[i].Destinatario,
         Fecha |-> filas_csv[i].Fecha,
         fecha_dt |-> to_datetime(TraducirCIDesde(filas_csv[i].Fecha, 1))]]

\* lines 38-54, df being df_csv with its column _fecha_dt
ProcesarParseado(df, rem) ==
    IF \E i \in 1..Len(FilasParseadas(df, rem)) : FilasParseadas(df, rem)[i].fecha_dt = NaT
    THEN Excepcion
    ELSE
    LET DelRemitente(f) == f.Remitente = rem
        df_filtrado == SelectSeq(df, DelRemitente)
        fechas_unicas ==
            LET desc == Reverse(Sorted(FechasDelFiltrado(df, df_filtrado)))
            IN {desc[k] : k \in 1..(IF Len(desc) < 2 THEN Len(desc) ELSE 2)}
        EnFechas(f) == f.fecha_dt.fecha \in fechas_unicas
        recientes == IF df_filtrado # <<>> THEN SelectSeq(df_filtrado, EnFechas)
                     ELSE df_filtrado
        NoPropio(f) == f.Destinatario # rem
    IN Dict(AgruparPorDestinatario(SelectSeq(recientes, NoPropio)))

procesar_csv_fechas(filas_csv, rem) ==
    Unico({ProcesarParseado(df, rem) : df \in {ConFechaDt(filas_csv)}})

-----------------------------------------------------------------------------
(* Inputs of procesar_csv_fechas: up to MaxRegistros rows. *)

Fila(rem, dest, fecha) == [Remitente |-> rem, Destinatario |-> dest, Fecha |-> fecha]

FechasLog ==
    { Fecha("12", "ENE", "2026", "10:00:00"),
      Fecha("11", "feb", "2026", "10:00:00"),
      Fecha("11", "feb", "2026", "14:30:00"),
      Fecha("13", "feb", "2026", "10:00:00") }

FechaIlegible == <<"x">>

FilasLog ==
    {Fila("r", "a", f) : f \in FechasLog}
        \cup {Fila("r", "b", Fecha("11", "feb", "2026", "10:00:00")),
              Fila("r", "b", Fecha("13", "feb", "2026", "10:00:00")),
              Fila("r", "r", Fecha("13", "feb", "2026", "10:00:00")),
              Fila("R", "a", Fecha("13", "feb", "2026", "10:00:00")),
              Fila("R", "a", FechaIlegible),
              Fila("r", "a", FechaIlegible)}

-----------------------------------------------------------------------------
(* documentos.py                                                           *)
(*                                                                         *)
(* A paragraph is the list of the texts of its runs; paragraph.text is     *)
(* their concatenation.  A placeholder is a sequence of atoms, so that it  *)
(* can be split across runs.                                               *)

RECURSIVE Concat(_)
Concat(textos) == IF textos = <<>> THEN <<>> ELSE Head(textos) \o Concat(Tail(textos))

\* parrafo.text, and "".join(r.text for r in parrafo.runs)
TextoParrafo(runs) == Concat(runs)

\* lines 15-17: replacement inside each run that holds the whole marker
EnCadaRun(runs, marcador, valor) ==
    [j \in 1..Len(runs) |->
        IF Contiene(runs[j], marcador) THEN Replace(runs[j], marcador, valor) ELSE runs[j]]

\* lines 20-26: the whole text goes to the first run, the other runs are emptied
UnirYReemplazar(runs, marcador, valor) ==
    IF runs = <<>> THEN runs
    ELSE [j \in 1..Len(runs) |->
             IF j = 1 THEN Replace(TextoParrafo(runs), marcador, valor) ELSE <<>>]

\* line 11: marcador in parrafo.text
MarcadorEnParrafo(runs, marcador) == Contiene(TextoParrafo(runs), marcador)

\* mutant: the marker is looked for in the runs only, never across them
SinMarcadorPartido(runs, marcador) == FALSE

\* line 19: the marker is still there once the runs have been handled one by one
MarcadorPartido(runs, marcador) == Contiene(TextoParrafo(runs), marcador)

\* mutant: the paragraph is always rewritten into its first run
ReemplazarUniendo(runs, marcador, valor) ==
    UnirYReemplazar(EnCadaRun(runs, marcador, valor), marcador, valor)

\* lines 11-26: one iteration of the loop over the map
ReemplazarMarcador(runs, marcador, valor) ==
    IF ~MarcadorEnParrafo(runs, marcador) THEN runs
    ELSE IF MarcadorPartido(EnCadaRun(runs, marcador, valor), marcador)
         THEN UnirYReemplazar(EnCadaRun(runs, marcador, valor), marcador, valor)
         ELSE EnCadaRun(runs, marcador, valor)

\* reemplazar_en_parrafo: the map is gone through in insertion order
RECURSIVE reemplazar_en_parrafo(_, _)
reemplazar_en_parrafo(runs, items) ==
    IF items = <<>> THEN runs
    ELSE reemplazar_en_parrafo(
             ReemplazarMarcador(runs, Head(items)[1], Head(items)[2]), Tail(items))

EnParrafos(parrafos, items) ==
    [i \in 1..Len(parrafos) |-> reemplazar_en_parrafo(parrafos[i], items)]

\* reemplazar_en_documento: body paragraphs, the paragraphs of every cell of
\* every row of every table, the header and the footer of every section
reemplazar_en_documento(doc, items) ==
    [paragraphs |-> EnParrafos(doc.paragraphs, items),
     tables |-> [t \in 1..Len(doc.tables) |->
                    [f \in 1..Len(doc.tables[t]) |->
                        [c \in 1..Len(doc.tables[t][f]) |->
                            EnParrafos(doc.tables[t][f][c], items)]]],
     sections |-> [k \in 1..Len(doc.sections) |->
                      [header |-> EnParrafos(doc.sections[k].header, items),
                       footer |-> EnParrafos(doc.sections[k].footer, items)]]]

\* the placeholders of razones.py, each cut into the atoms a template may
\* spread over several runs
TITULO_CREDITO == <<"TITU", "LO_CREDITO">>
NOMBRE_CLIENTE == <<"NOMBRE_", "CLIENTE">>
CEDULA_CLIENTE == <<"CEDULA_", "CLIENTE">>
CORREO == <<"CORREO">>
FECHAS == <<"FECHAS">>

-----------------------------------------------------------------------------
(* Inputs of reemplazar_en_parrafo and reemplazar_en_documento. *)

AtomosParrafo == {"TITU", "LO_CREDITO", "CORREO", "x"}
TextosRun == SeqHasta(AtomosParrafo, 2)
Parrafos == SeqHasta(TextosRun, MaxRuns)

Valores == {<<"v">>, <<"x">>, <<>>, TITULO_CREDITO, CORREO}
Mapas == {<< <<TITULO_CREDITO, v1>>, <<CORREO, v2>> >> : v1 \in Valores, v2 \in Valores}

ParrafosDoc ==
    { <<>>,
      << <<"x">> >>,
      << <<"x">>, <<"TITU">> >>,
      << <<"LO_CREDITO", "x">>, <<>>, <<"TITU">> >>,
      << <<"TITU">>, <<"LO_CREDITO">> >>,
      << <<"x", "CORREO">> >> }

Documentos ==
    {[paragraphs |-> ps,
      tables |-> << << << <<celda>> >> >> >>,
      sections |-> << [header |-> <<enc>>, footer |-> <<pie>>] >>] :
        ps \in SeqHasta(ParrafosDoc, MaxParrafos),
        celda \in {<< <<"x">>, <<"TITU">> >>, << <<"TITU">>, <<"LO_CREDITO">> >>},
        enc \in {<< <<"x">> >>, << <<"CORREO">> >>},
        pie \in {<< <<"x">>, <<>> >>, << <<"TITU", "LO_CREDITO">> >>}}

DocVacio == [paragraphs |-> <<>>, tables |-> <<>>, sections |-> <<>>]

-----------------------------------------------------------------------------
(* razones.py: generar_razones *)

\* str(numero_titulo)
TextoTitulo == (1 :> <<"1">>) @@ (2 :> <<"2">>) @@ (3 :> <<"3">>)

\* the rows of one NUMERO_TITULO, in sheet order
FilasDelTitulo(filas, titulo) ==
    LET DelTitulo(f) == f.NUMERO_TITULO = titulo IN SelectSeq(filas, DelTitulo)

\* mutant: the groups come in the order in which the titles first appear
RECURSIVE TitulosPorAparicion(_)
TitulosPorAparicion(filas) ==
    IF filas = <<>> THEN <<>>
    ELSE LET Otro(f) == f.NUMERO_TITULO # Head(filas).NUMERO_TITULO
         IN <<Head(filas).NUMERO_TITULO>> \o TitulosPorAparicion(SelectSeq(filas, Otro))

\* df.groupby("NUMERO_TITULO"): the group keys are sorted (sort=True)
TitulosAgrupados(filas) == Sorted({filas[i].NUMERO_TITULO : i \in 1..Len(filas)})

\* line 33: df.groupby("NUMERO_TITULO")["Email"].apply(list).to_dict()
EmailsPorTitulo(filas) ==
    [k \in 1..Len(TitulosAgrupados(filas)) |->
        <<TitulosAgrupados(filas)[k],
          [j \in 1..Len(FilasDelTitulo(filas, TitulosAgrupados(filas)[k])) |->
              FilasDelTitulo(filas, TitulosAgrupados(filas)[k])[j].Email]>>]

\* line 37: the keys of the index lower-cased; no two keys of the inputs
\* differ by case only
DicLower(indice) ==
    [k \in {LowerAtom(d) : d \in DOMAIN indice} |->
        indice[CHOOSE d \in DOMAIN indice : LowerAtom(d) = k]]

\* lines 38-40: the value of the column FECHA_NOTIFICACION for an email
FechaNotificacionDe(indice, email) ==
    IF LowerAtom(email) \in DOMAIN DicLower(indice)
    THEN Join(DicLower(indice)[LowerAtom(email)], <<Coma, Sp>>)
    ELSE <<>>

\* if dic_fechas: neither None nor an empty dict
HayFechas(dic) == dic.estado = "dict" /\ dic.indice # <<>>

\* lines 36-40
ConFechaNotificacion(filas, dic) ==
    IF HayFechas(dic)
    THEN [i \in 1..Len(filas) |->
             [filas[i] EXCEPT !.FECHA_NOTIFICACION =
                                  FechaNotificacionDe(dic.indice, filas[i].Email)]]
    ELSE filas

\* lines 45-61: the replacement map of one title
ReemplazosDelTitulo(filas, dic, numero_titulo, emails) ==
    LET datos == FilasDelTitulo(filas, numero_titulo)[1]
        correos == Join([j \in 1..Len(emails) |-> <<emails[j]>>], <<Coma, Sp>>)
        fechas_texto == IF HayFechas(dic)
                        THEN formatear_fechas_notificacion(datos.FECHA_NOTIFICACION)
                        ELSE <<>>
    IN << <<TITULO_CREDITO, <<datos.CUENTA_CONTRATO>> >>,
          <<NOMBRE_CLIENTE, <<datos.NOMBRE_CLIENTE>> >>,
          <<CEDULA_CLIENTE, TextoTitulo[numero_titulo]>>,
          <<CORREO, correos>>,
          <<FECHAS, fechas_texto>> >>

\* lines 64-65: Razon_<CUENTA_CONTRATO>_<NUMERO_TITULO>.docx
RutaDelTitulo(filas, numero_titulo) ==
    <<"Razon_", FilasDelTitulo(filas, numero_titulo)[1].CUENTA_CONTRATO, "_">>
        \o TextoTitulo[numero_titulo] \o <<".docx">>

\* mutant: the document of the previous title is used again
DocumentoAnterior(en_archivo, anterior) ==
    IF anterior = DocVacio
    THEN en_archivo ELSE anterior

\* line 54: Document(plantilla_path) reads the template again
CargarPlantilla(en_archivo, anterior) == en_archivo

-----------------------------------------------------------------------------
(* The state machine: each specification runs one operation on an input     *)
(* drawn from the sets above; the variables of the other operations rest.  *)

ReposoMes == texto_fecha = <<>> /\ texto_expandido = NoCalculado
ReposoFechas == fecha_notificacion = <<>> /\ texto_notificacion = NoCalculado
ReposoCsv ==
    /\ df_csv = <<>>
    /\ remitente = REMITENTE_DEFAULT
    /\ dic_fechas = SinDic
    /\ respuesta = "ninguna"

ReposoDoc ==
    /\ reemplazos = <<>>
    /\ parrafo = <<>> /\ parrafo_original = <<>>
    /\ documento = DocVacio /\ documento_original = DocVacio

ReposoRazones ==
    /\ df_excel = <<>>
    /\ plantilla = DocVacio
    /\ emails_por_titulo = <<>>
    /\ archivos_generados = <<>>
    /\ disco = <<>>

InitMes ==
    /\ pc = "inicio"
    /\ texto_fecha \in TextosMes
    /\ texto_expandido = NoCalculado
    /\ ReposoFechas /\ ReposoCsv /\ ReposoDoc /\ ReposoRazones

ExpandirMes ==
    /\ pc = "inicio"
    /\ pc' = "fin"
    /\ texto_expandido' = expandir_mes(texto_fecha)
    /\ UNCHANGED <<texto_fecha, varsFechas, varsCsv, varsDoc, varsRazones>>

NextMes == ExpandirMes

SpecMes == InitMes /\ [][NextMes]_vars

InitFechas ==
    /\ pc = "inicio"
    /\ \E segs \in SeqHasta(SegmentosFecha, MaxSegmentos) :
           fecha_notificacion = Join(segs, <<Coma, Sp>>)
    /\ texto_notificacion = NoCalculado
    /\ ReposoMes /\ ReposoCsv /\ ReposoDoc /\ ReposoRazones

FormatearFechas ==
    /\ pc = "inicio"
    /\ pc' = "fin"
    /\ texto_notificacion' = formatear_fechas_notificacion(fecha_notificacion)
    /\ UNCHANGED <<fecha_notificacion, varsMes, varsCsv, varsDoc, varsRazones>>

NextFechas == FormatearFechas

SpecFechas == InitFechas /\ [][NextFechas]_vars

InitCsv ==
    /\ pc = "inicio"
    /\ df_csv \in SeqHasta(FilasLog, MaxRegistros)
    /\ remitente \in {REMITENTE_DEFAULT, "R"}
    /\ dic_fechas = SinDic
    /\ respuesta = "ninguna"
    /\ ReposoMes /\ ReposoFechas /\ ReposoDoc /\ ReposoRazones

\* a direct call procesar_csv_fechas(csv_path, remitente)
ProcesarCsvFechas ==
    /\ pc = "inicio"
    /\ pc' = "fin"
    /\ dic_fechas' = procesar_csv_fechas(df_csv, remitente)
    /\ UNCHANGED <<df_csv, remitente, respuesta, varsMes, varsFechas, varsDoc, varsRazones>>

\* api.py lines 124-132: the endpoint calls with the default sender and turns
\* any exception into an HTTP 400 response
EndpointCsvFechas ==
    /\ pc = "inicio"
    /\ remitente = REMITENTE_DEFAULT
    /\ pc' = "fin_endpoint"
    /\ LET r == procesar_csv_fechas(df_csv, REMITENTE_DEFAULT) IN
       IF r.estado = "excepcion"
       THEN dic_fechas' = SinDic /\ respuesta' = "HTTP 400"
       ELSE dic_fechas' = r /\ respuesta' = "continua"
    /\ UNCHANGED <<df_csv, remitente, varsMes, varsFechas, varsDoc, varsRazones>>

NextCsv == ProcesarCsvFechas \/ EndpointCsvFechas

SpecCsv == InitCsv /\ [][NextCsv]_vars

InitParrafo ==
    /\ pc = "inicio"
    /\ reemplazos \in Mapas
    /\ parrafo \in Parrafos
    /\ parrafo_original = parrafo
    /\ documento = DocVacio /\ documento_original = DocVacio
    /\ ReposoMes /\ ReposoFechas /\ ReposoCsv /\ ReposoRazones

ReemplazarEnParrafo ==
    /\ pc = "inicio"
    /\ pc' = "fin"
    /\ parrafo' = reemplazar_en_parrafo(parrafo, reemplazos)
    /\ UNCHANGED <<reemplazos, parrafo_original, documento, documento_original,
                   varsMes, varsFechas, varsCsv, varsRazones>>

NextParrafo == ReemplazarEnParrafo

SpecParrafo == InitParrafo /\ [][NextParrafo]_vars

InitDoc ==
    /\ pc = "inicio"
    /\ reemplazos \in Mapas
    /\ documento \in Documentos
    /\ documento_original = documento
    /\ parrafo = <<>> /\ parrafo_original = <<>>
    /\ ReposoMes /\ ReposoFechas /\ ReposoCsv /\ ReposoRazones

ReemplazarEnDocumento ==
    /\ pc = "inicio"
    /\ pc' = "fin"
    /\ documento' = reemplazar_en_documento(documento, reemplazos)
    /\ UNCHANGED <<reemplazos, parrafo, parrafo_original, documento_original,
                   varsMes, varsFechas, varsCsv, varsRazones>>

NextDoc == ReemplazarEnDocumento

SpecDoc == InitDoc /\ [][NextDoc]_vars

FilaExcel(email, titulo, cuenta) ==
    [Email |-> email, NOMBRE_CLIENTE |-> "n" \o cuenta, NUMERO_TITULO |-> titulo,
     CUENTA_CONTRATO |-> cuenta, FECHA_NOTIFICACION |-> <<>>]

FilasExcel ==
    {FilaExcel(e, t, c) : e \in {"a", "B"}, t \in {1, 2}, c \in {"c1", "c2"}}

IndiceFechas ==
    ("a" :> << Fecha("11", "feb", "2026", "10:00:00"),
               Fecha("11", "feb", "2026", "14:30:00"),
               Fecha("13", "feb", "2026", "10:00:00") >>)
        @@ ("b" :> << Fecha("12", "ENE", "2026", "10:00:00") >>)

\* a template with the five placeholders, in the body, a table cell, the
\* header and the footer, two of them spread over two runs
PlantillaRazon ==
    [paragraphs |-> << << <<"x">>, <<"TITU">>, <<"LO_CREDITO", "x">> >>,
                       << <<"NOMBRE_", "CLIENTE">> >> >>,
     tables |-> << << << << << <<"CEDULA_">>, <<"CLIENTE">> >> >> >> >> >>,
     sections |-> << [header |-> << << <<"CORREO">> >> >>,
                      footer |-> << << <<"x", "FECHAS">> >> >>] >>]

InitRazones ==
    /\ pc = "inicio"
    /\ df_excel \in SeqHasta(FilasExcel, MaxFilas)
    /\ dic_fechas \in {SinDic, Dict(IndiceFechas)}
    /\ plantilla = PlantillaRazon
    /\ emails_por_titulo = <<>>
    /\ archivos_generados = <<>>
    /\ disco = <<>>
    /\ documento = DocVacio /\ documento_original = DocVacio
    /\ reemplazos = <<>>
    /\ parrafo = <<>> /\ parrafo_original = <<>>
    /\ df_csv = <<>> /\ remitente = REMITENTE_DEFAULT /\ respuesta = "ninguna"
    /\ ReposoMes /\ ReposoFechas

\* lines 33-42
AgruparEmails ==
    /\ pc = "inicio"
    /\ pc' = "bucle"
    /\ emails_por_titulo' = EmailsPorTitulo(df_excel)
    /\ df_excel' = ConFechaNotificacion(df_excel, dic_fechas)
    /\ archivos_generados' = <<>>
    /\ UNCHANGED <<plantilla, disco, dic_fechas, df_csv, remitente, respuesta,
                   varsMes, varsFechas, varsDoc>>

\* lines 44-67: one iteration of the loop, for the next item of the dict
GenerarDocumento ==
    /\ pc = "bucle"
    /\ Len(archivos_generados) < Len(emails_por_titulo)
    /\ \E item \in {emails_por_titulo[Len(archivos_generados) + 1]} :
       \E items \in {ReemplazosDelTitulo(df_excel, dic_fechas, item[1], item[2])} :
       \E doc \in {reemplazar_en_documento(CargarPlantilla(plantilla, documento), items)} :
          /\ reemplazos' = items
          /\ documento' = doc
          /\ disco' = (RutaDelTitulo(df_excel, item[1]) :> doc) @@ disco
          /\ archivos_generados' = Append(archivos_generados, RutaDelTitulo(df_excel, item[1]))
    /\ UNCHANGED <<pc, df_excel, plantilla, emails_por_titulo, parrafo, parrafo_original,
                   documento_original, varsMes, varsFechas, varsCsv>>

\* line 69
DevolverArchivos ==
    /\ pc = "bucle"
    /\ Len(archivos_generados) = Len(emails_por_titulo)
    /\ pc' = "fin"
    /\ UNCHANGED <<varsMes, varsFechas, varsCsv, varsDoc, varsRazones>>

NextRazones == AgruparEmails \/ GenerarDocumento \/ DevolverArchivos

SpecRazones == InitRazones /\ [][NextRazones]_vars

-----------------------------------------------------------------------------
(* Properties of formatear_fechas_notificacion. *)

SegsEntrada == RawPartes(fecha_notificacion)

\* the parsed value of every segment
DtsDe(segs) == [i \in 1..Len(segs) |-> ParsearSegmento(segs[i])]

QueParsean(dts) == {i \in 1..Len(dts) : dts[i] # NaT}

\* the representative of each calendar day: latest time of day, first seen on ties
RepresentantesDia(dts) ==
    {i \in QueParsean(dts) :
        \A j \in QueParsean(dts) :
            dts[j].fecha = dts[i].fecha =>
                \/ dts[j].hora < dts[i].hora
                \/ dts[j].hora = dts[i].hora /\ j >= i}

\* the representatives of the two most recent days
RepresentantesElegidos(dts) ==
    LET reps == RepresentantesDia(dts) IN
    {i \in reps :
        Cardinality({dts[j].fecha : j \in {k \in reps : dts[k].fecha > dts[i].fecha}}) < 2}

TextoEsperado(segs, dts) ==
    LET R == RepresentantesElegidos(dts) IN
    IF Cardinality(R) = 1
    THEN expandir_mes(segs[CHOOSE i \in R : TRUE])
    ELSE LET a == CHOOSE i \in R : \A j \in R : dts[i].fecha <= dts[j].fecha
             b == CHOOSE i \in R : i # a
         IN expandir_mes(segs[a]) \o <<Sp, "y", Sp>> \o expandir_mes(segs[b])

\* C1: when at least one segment parses, the result is the " y "-join, earliest
\* day first, of the expanded raw text of the latest-time (first seen on ties)
\* segment of each of the two most recent calendar days; unparseable segments
\* do not appear.
C1_FormatoPorDia ==
    pc = "fin" =>
        \A segs \in {SegsEntrada} : \A dts \in {DtsDe(segs)} :
           QueParsean(dts) # {} =>
               /\ Cardinality(RepresentantesElegidos(dts)) \in {1, 2}
               /\ texto_notificacion = TextoEsperado(segs, dts)

\* three distinct days, so that the earliest day is dropped
C1_Testigo ==
    /\ pc = "fin"
    /\ \E segs \in {SegsEntrada} : \E dts \in {DtsDe(segs)} :
          /\ Cardinality({dts[i].fecha : i \in QueParsean(dts)}) = 3
          /\ texto_notificacion = TextoEsperado(segs, dts)

\* number of places where " y " occurs in s
CuentaY(s) == Cardinality({i \in 1..Len(s) : OcurreEn(s, <<Sp, "y", Sp>>, i)})

\* C2 as stated: the result never holds more than one " y " separator.
C2_Original == pc = "fin" => CuentaY(texto_notificacion) <= 1

\* C2 (amended): the result is empty, one expanded segment, or two expanded
\* segments joined by one " y "; it holds at most one " y " when some segment
\* parses or when no segment holds the word "y" itself.
C2_ALoSumoDosFrases ==
    pc = "fin" =>
        \A segs \in {SegsEntrada} :
        \A E \in {{expandir_mes(segs[i]) : i \in 1..Len(segs)}} :
        /\ \/ texto_notificacion = <<>>
           \/ texto_notificacion \in E
           \/ \E a \in E : \E b \in E :
                  texto_notificacion = a \o <<Sp, "y", Sp>> \o b
        /\ (\/ QueParsean(DtsDe(segs)) # {}
            \/ \A i \in 1..Len(segs) : \A k \in 1..Len(segs[i]) : segs[i][k] # "y")
           => CuentaY(texto_notificacion) <= 1

C2_Testigo ==
    /\ pc = "fin"
    /\ Len(SegsEntrada) >= 3
    /\ Cardinality(QueParsean(DtsDe(SegsEntrada))) >= 3
    /\ CuentaY(texto_notificacion) = 1

-----------------------------------------------------------------------------
(* Properties of expandir_mes. *)

Abrevs == {MESES_COMPLETOS[k][1] : k \in 1..Len(MESES_COMPLETOS)}
CompletoDe(abrev) ==
    MESES_COMPLETOS[CHOOSE k \in 1..Len(MESES_COMPLETOS) : MESES_COMPLETOS[k][1] = abrev][2]

EsAbrev(tok) == Len(tok) = 1 /\ LowerAtom(tok[1]) \in Abrevs

\* toks with token i replaced by the three tokens "de", <full month name>, "de"
ConMesExpandido(toks, i) ==
    SubSeq(toks, 1, i - 1)
        \o << <<"de">>, <<CompletoDe(LowerAtom(toks[i][1]))>>, <<"de">> >>
        \o SubSeq(toks, i + 1, Len(toks))

\* C9 as stated: the first whitespace-delimited token that is a month
\* abbreviation is replaced and the other tokens are untouched; without such a
\* token the original string is returned unmodified.
C9_Original ==
    pc = "fin" =>
        LET toks == Split(texto_fecha) IN
        IF \E i \in 1..Len(toks) : EsAbrev(toks[i])
        THEN LET i == CHOOSE i \in 1..Len(toks) :
                          EsAbrev(toks[i]) /\ \A j \in 1..(i - 1) : ~EsAbrev(toks[j])
             IN Split(texto_expandido) = ConMesExpandido(toks, i)
        ELSE texto_expandido = texto_fecha

\* abbreviation number k of the table stands between two single spaces of t
EntreEspacios(t, k) ==
    \E j \in 1..Len(t) :
        /\ j + 2 <= Len(t)
        /\ t[j] = Sp
        /\ LowerAtom(t[j + 1]) = MESES_COMPLETOS[k][1]
        /\ t[j + 2] = Sp

\* C9 (amended): expandir_mes works on the stripped string; the abbreviation
\* chosen is the first one in table order that occurs between two spaces, and
\* the first token equal to it (any case) becomes "de <full name> de", the
\* other tokens being kept and re-joined with single spaces; if no abbreviation
\* occurs between two spaces the stripped string is returned.
C9_ExpandeMes ==
    pc = "fin" =>
        LET t == Strip(texto_fecha)
            toks == Split(t)
            K == {k \in 1..Len(MESES_COMPLETOS) : EntreEspacios(t, k)}
        IN IF K = {} THEN texto_expandido = t
           ELSE LET k == CHOOSE k \in K : \A m \in K : k <= m
                    i == CHOOSE i \in 1..Len(toks) :
                             /\ Lower(toks[i]) = <<MESES_COMPLETOS[k][1]>>
                             /\ \A j \in 1..(i - 1) :
                                    Lower(toks[j]) # <<MESES_COMPLETOS[k][1]>>
                IN /\ Split(texto_expandido) = ConMesExpandido(toks, i)
                   /\ texto_expandido = Join(Split(texto_expandido), <<Sp>>)

\* two abbreviations between spaces, the later one of the table standing first
C9_Testigo ==
    /\ pc = "fin"
    /\ EntreEspacios(Strip(texto_fecha), 2)
    /\ EntreEspacios(Strip(texto_fecha), 3)
    /\ Lower(Split(texto_fecha)[2]) = <<"mar">>
    /\ Contiene(texto_expandido, <<"febrero">>)
    /\ Contiene(texto_expandido, <<"MAR">>)

-----------------------------------------------------------------------------
(* Properties of procesar_csv_fechas. *)

\* the calendar date of the timestamp of every row of the log
DiasLog == [i \in 1..Len(df_csv) |-> to_datetime(TraducirCIDesde(df_csv[i].Fecha, 1)).fecha]

AlgunaIlegible == \E dias \in {DiasLog} : \E i \in 1..Len(df_csv) : dias[i] = NaT.fecha

\* the rows that belong in the index: sent by the sender, on one of the two
\* most recent distinct days (dias) of the sender's rows, to somebody else
FilasDelIndice(dias) ==
    LET suyas == {i \in 1..Len(df_csv) : df_csv[i].Remitente = remitente} IN
    {i \in suyas :
        /\ Cardinality({dias[j] : j \in {k \in suyas : dias[k] > dias[i]}}) < 2
        /\ df_csv[i].Destinatario # remitente}

\* C3: the index holds exactly the (recipient, timestamp) entries of the rows
\* whose sender is the given sender, whose day is one of the two most recent
\* distinct days of that sender's rows and whose recipient is not the sender,
\* each recipient's timestamps in log order; it is empty when no row matches.
C3_IndiceExacto ==
    (pc \in {"fin", "fin_endpoint"} /\ dic_fechas.estado = "dict") =>
        \A dias \in {DiasLog} : \A entran \in {FilasDelIndice(dias)} :
        LET idx == dic_fechas.indice IN
        /\ DOMAIN idx = {df_csv[i].Destinatario : i \in entran}
        /\ \A d \in DOMAIN idx :
               LET Entra(i) == i \in entran /\ df_csv[i].Destinatario = d
                   filas == SelectSeq([i \in 1..Len(df_csv) |-> i], Entra)
               IN idx[d] = [k \in 1..Len(filas) |-> df_csv[filas[k]].Fecha]
        /\ (\A i \in 1..Len(df_csv) : df_csv[i].Remitente # remitente) => idx = <<>>

\* three distinct days of the sender: the rows of the earliest are left out
C3_Testigo ==
    /\ pc = "fin"
    /\ dic_fechas.estado = "dict"
    /\ \E dias \in {DiasLog} :
       /\ Cardinality({dias[i] : i \in {k \in 1..Len(df_csv) :
                                           df_csv[k].Remitente = remitente}}) = 3
       /\ \E i \in 1..Len(df_csv) :
              /\ df_csv[i].Remitente = remitente
              /\ df_csv[i].Destinatario # remitente
              /\ i \notin FilasDelIndice(dias)
    /\ dic_fechas.indice # <<>>

\* C10: when the timestamp of any row fails to parse, whoever sent it, the call
\* raises and leaves no index, and the endpoint answers HTTP 400.
C10_LogIlegibleRechazado ==
    (pc # "inicio" /\ AlgunaIlegible) =>
        /\ pc = "fin" => dic_fechas = Excepcion
        /\ pc = "fin_endpoint" => dic_fechas = SinDic /\ respuesta = "HTTP 400"

\* an unreadable timestamp in a row of another sender, next to a good row of
\* the default sender, rejected by the endpoint
C10_Testigo ==
    /\ pc = "fin_endpoint"
    /\ respuesta = "HTTP 400"
    /\ \E dias \in {DiasLog} :
       \E i \in 1..Len(df_csv) : \E j \in 1..Len(df_csv) :
           /\ dias[i] = NaT.fecha
           /\ df_csv[i].Remitente # remitente
           /\ df_csv[j].Remitente = remitente
           /\ df_csv[j].Destinatario # remitente
           /\ dias[j] # NaT.fecha

-----------------------------------------------------------------------------
(* Properties of reemplazar_en_parrafo and reemplazar_en_documento. *)

\* the position in the paragraph text of the first atom of run j
InicioRun(runs, j) == Len(Concat(SubSeq(runs, 1, j - 1))) + 1

\* marcador occurs in the text of the paragraph at a place that no single run holds
PartidoEntreRuns(runs, marcador) ==
    \E i \in 1..Len(Concat(runs)) :
        /\ OcurreEn(Concat(runs), marcador, i)
        /\ \A j \in 1..Len(runs) :
               ~(/\ InicioRun(runs, j) <= i
                 /\ i + Len(marcador) - 1 <= InicioRun(runs, j) + Len(runs[j]) - 1)

\* C4 as stated: a placeholder of the map that is split across runs does not
\* occur in the text of the runs after the call.
C4_Original ==
    pc = "fin" =>
        \A k \in 1..Len(reemplazos) :
            PartidoEntreRuns(parrafo_original, reemplazos[k][1]) =>
                ~Contiene(Concat(parrafo), reemplazos[k][1])

\* no value of the map is empty or holds a piece of a placeholder of the map
ValoresInocuos(items) ==
    \A k \in 1..Len(items) :
        /\ items[k][2] # <<>>
        /\ \A n \in 1..Len(items[k][2]) :
               \A m \in 1..Len(items) :
                   \A q \in 1..Len(items[m][1]) : items[k][2][n] # items[m][1][q]

\* C4 (amended): when no replacement value is empty or holds text of a
\* placeholder, a placeholder of the map that is split across runs does not
\* occur in the text of the runs after the call.
C4_PartidoReemplazado ==
    (pc = "fin" /\ ValoresInocuos(reemplazos)) =>
        \A k \in 1..Len(reemplazos) :
            PartidoEntreRuns(parrafo_original, reemplazos[k][1]) =>
                ~Contiene(Concat(parrafo), reemplazos[k][1])

C4_Testigo ==
    /\ pc = "fin"
    /\ ValoresInocuos(reemplazos)
    /\ PartidoEntreRuns(parrafo_original, TITULO_CREDITO)
    /\ Len(parrafo_original) = 2
    /\ Contiene(Concat(parrafo), reemplazos[1][2])
    /\ ~Contiene(Concat(parrafo), TITULO_CREDITO)

\* every paragraph of a document: body, table cells, headers, footers
ParrafosDe(doc) ==
    {doc.paragraphs[i] : i \in 1..Len(doc.paragraphs)}
        \cup UNION {UNION {UNION {{doc.tables[t][f][c][i] :
                                      i \in 1..Len(doc.tables[t][f][c])} :
                                  c \in 1..Len(doc.tables[t][f])} :
                           f \in 1..Len(doc.tables[t])} :
                    t \in 1..Len(doc.tables)}
        \cup UNION {{doc.sections[k].header[i] : i \in 1..Len(doc.sections[k].header)}
                        \cup {doc.sections[k].footer[i] :
                                 i \in 1..Len(doc.sections[k].footer)} :
                    k \in 1..Len(doc.sections)}

NingunMarcador(doc, items) ==
    \A runs \in ParrafosDe(doc) :
        \A k \in 1..Len(items) : ~Contiene(Concat(runs), items[k][1])

\* C5: when no key of the map occurs in the text of any paragraph of the
\* document, reemplazar_en_documento leaves every run of every paragraph, and
\* so the number of runs and the text of every paragraph, as they were.
C5_SinMarcadoresSinCambios ==
    (pc = "fin" /\ NingunMarcador(documento_original, reemplazos)) =>
        documento = documento_original

\* a document without placeholders that holds a piece of one and a paragraph
\* of several runs
C5_Testigo ==
    /\ pc = "fin"
    /\ NingunMarcador(documento_original, reemplazos)
    /\ documento = documento_original
    /\ \E runs \in ParrafosDe(documento_original) :
           Len(runs) >= 2 /\ Contiene(Concat(runs), <<"TITU">>)
    /\ Len(documento_original.paragraphs) >= 1

-----------------------------------------------------------------------------
(* Properties of generar_razones. *)

\* the elements of a sequence in the order of their first appearance
PrimerasApariciones(s) ==
    LET Primera(i) == \A j \in 1..(i - 1) : s[j] # s[i]
        n == Cardinality({i \in 1..Len(s) : Primera(i)})
    IN IF n = 0 THEN <<>>
       ELSE CHOOSE r \in [1..n -> {s[i] : i \in 1..Len(s)}] :
                \E f \in [1..n -> 1..Len(s)] :
                    /\ \A k \in 1..n : Primera(f[k]) /\ r[k] = s[f[k]]
                    /\ \A a, b \in 1..n : a < b => f[a] < f[b]

TitulosDeFilas == [i \in 1..Len(df_excel) |-> df_excel[i].NUMERO_TITULO]

RutasDe(titulos) == [k \in 1..Len(titulos) |-> RutaDelTitulo(df_excel, titulos[k])]

\* C6, as stated: the returned paths are one per distinct NUMERO_TITULO, in
\* the order in which the titles first appear in the rows.
C6_Original ==
    pc = "fin" => archivos_generados = RutasDe(PrimerasApariciones(TitulosDeFilas))

\* C6: generar_razones returns exactly one path per distinct NUMERO_TITULO
\* of the rows, in ascending order of NUMERO_TITULO; with zero rows it
\* returns the empty list.
C6_UnaRutaPorTituloAscendente ==
    pc = "fin" =>
        \A titulos \in {{df_excel[i].NUMERO_TITULO : i \in 1..Len(df_excel)}} :
            /\ Len(archivos_generados) = Cardinality(titulos)
            /\ \E orden \in [1..Cardinality(titulos) -> titulos] :
                   /\ \A a, b \in 1..Cardinality(titulos) : a < b => orden[a] < orden[b]
                   /\ archivos_generados = RutasDe(orden)
            /\ (df_excel = <<>> => archivos_generados = <<>>)

C6_Testigo ==
    /\ pc = "fin"
    /\ Len(archivos_generados) = 2
    /\ df_excel[1].NUMERO_TITULO = 2

\* the title of the document generated last
TituloActual == emails_por_titulo[Len(archivos_generados)][1]

EmailsDeFilas(titulo) ==
    [j \in 1..Len(FilasDelTitulo(df_excel, titulo)) |->
        <<FilasDelTitulo(df_excel, titulo)[j].Email>>]

\* C7, as stated: the CORREO value of a title is the ", "-join of the
\* emails of its rows in order of first appearance, each distinct email once.
C7_CorreoSinRepetidos ==
    (pc = "bucle" /\ Len(archivos_generados) >= 1) =>
        reemplazos[4] = <<CORREO, Join(PrimerasApariciones(EmailsDeFilas(TituloActual)),
                                       <<Coma, Sp>>)>>

\* the document that the rows of one title alone give, from the template
DocumentoAislado(titulo) ==
    LET filas == ConFechaNotificacion(FilasDelTitulo(df_excel, titulo), dic_fechas)
    IN reemplazar_en_documento(plantilla,
           ReemplazosDelTitulo(filas, dic_fechas, titulo,
                               [j \in 1..Len(filas) |-> filas[j].Email]))

\* C8: every document saved by generar_razones is the one that the template,
\* the rows of its own title and the index of dates give by themselves,
\* whatever titles were processed before it.
C8_DocumentoIndependiente ==
    \A k \in 1..Len(archivos_generados) :
        disco[archivos_generados[k]] = DocumentoAislado(emails_por_titulo[k][1])

C8_Testigo ==
    /\ pc = "fin"
    /\ Len(archivos_generados) = 2
    /\ disco[archivos_generados[1]] # disco[archivos_generados[2]]
    /\ disco[archivos_generados[2]] = DocumentoAislado(emails_por_titulo[2][1])

-----------------------------------------------------------------------------
(* Independence of the placeholders of one paragraph. *)

\* the text with every occurrence of every placeholder of the map replaced,
\* in one pass from left to right, by the value of that placeholder; what a
\* value puts into the text is not looked at again
RECURSIVE CadaMarcadorPorSuValor(_, _)
CadaMarcadorPorSuValor(texto, items) ==
    IF texto = <<>> THEN <<>>
    ELSE IF \E k \in 1..Len(items) : OcurreEn(texto, items[k][1], 1)
    THEN LET k == CHOOSE m \in 1..Len(items) : OcurreEn(texto, items[m][1], 1)
         IN items[k][2]
                \o CadaMarcadorPorSuValor(
                       SubSeq(texto, Len(items[k][1]) + 1, Len(texto)), items)
    ELSE <<Head(texto)>> \o CadaMarcadorPorSuValor(Tail(texto), items)

\* C11, as stated: after reemplazar_en_parrafo the text of the paragraph is
\* the original text with each occurrence of each placeholder replaced by
\* its own value, and the text of a value is not touched by the
\* substitution of another placeholder.
C11_MarcadoresIndependientes ==
    pc = "fin" =>
        Concat(parrafo) = CadaMarcadorPorSuValor(Concat(parrafo_original), reemplazos)

\* the value of TITULO_CREDITO is the text CORREO, and the substitution of
\* CORREO, which comes later in the map, replaces it
C11_ValorAlterado ==
    /\ pc = "fin"
    /\ parrafo_original = << <<"TITU", "LO_CREDITO">> >>
    /\ reemplazos = << <<TITULO_CREDITO, CORREO>>, <<CORREO, <<"v">> >> >>
    /\ Concat(parrafo) = <<"v">>
    /\ CadaMarcadorPorSuValor(Concat(parrafo_original), reemplazos) = CORREO

=============================================================================
